---- MODULE Spec2Model ----
(***************************************************************************)
(* Radar ingestion and rendering pipeline of Swiftships-UI.                *)
(*                                                                         *)
(*   RadarService            src/app/modules/radar/radar.service.ts        *)
(*   RadarDisplayComponent   src/app/modules/radar/radar-display.component *)
(*                                                                         *)
(* The program is single threaded: every action below is one task of the   *)
(* browser's event loop (a call made by the host, a timer callback, a      *)
(* socket event, the continuation of an await) run to completion together  *)
(* with the promise reactions it triggers.                                 *)
(***************************************************************************)
EXTENDS Integers, Sequences, FiniteSets, TLC

(***************************************************************************)
(* Bounds of the model.                                                    *)
(***************************************************************************)
\* connectToRadar invocations that get past the guard; each has an id 1..MaxCalls
MaxCalls == 2
\* longest sequence of spokes the display processes after a config
MaxSpokes == 3
\* largest ring value formatted, in quarters of a metre (3704 m)
MaxQuarters == 14816
\* largest number of bins of a sweep whose rotation is computed
MaxBins == 8

(***************************************************************************)
(* Program constants.                                                      *)
(***************************************************************************)
\* range: 1852 // Default 1nm
DefaultRange == 1852
\* setTimeout(..., 5000) in onclose
ReconnectDelay == 5000
\* setTimeout(..., 10000) in connectWebSocket
ConnectTimeout == 10000
\* private webSocket: WebSocket | null = null  (0 stands for null)
NoSocket == 0
\* a timer that is not armed (never set, or already fired)
Off == 0 - 1
\* time advances in steps of this many milliseconds
TimeStep == ReconnectDelay

\* currentRadar: RadarServerInfo | null = null
NoRadar == "null"
\* connectToRadar(radarId?) called without an id
NoId == ""

\* ids the discovery endpoint can list
RadarIds == {"r1", "r2"}
\* the bodies the discovery query can return: Object.keys order is the order here
DiscoveryResults == {<<>>, <<"r1">>, <<"r1", "r2">>}
\* what the discovery query ends with.  ok: fetch resolved and response.json()
\* parsed the body; status: the HTTP status, 0 when the network failed;
\* radars: the keys of the parsed body
DiscoveryAnswers ==
    {[ok |-> FALSE, status |-> s, radars |-> <<>>] : s \in {0, 200}}
    \cup {[ok |-> TRUE, status |-> s, radars |-> r] : s \in {200, 500}, r \in DiscoveryResults}

\* sparse legends: index -> colour string, a colour string being "#" followed
\* by the hex digits listed here
Legend1 == (0 :> <<1, 0, 2, 0, 3, 0>>) @@ (1 :> <<15, 15, 0, 0, 0, 0, 8, 0>>)
Legend2 == (1 :> <<0, 0, 15, 15, 0, 0>>) @@ (255 :> <<15, 15, 15, 15, 15, 15>>)

\* the RadarServerInfo the discovery lists under an id
RadarInfo(id) ==
    IF id = "r1"
    THEN [spokes |-> 2, maxSpokeLen |-> 2, legend |-> Legend1]
    ELSE [spokes |-> 1, maxSpokeLen |-> 2, legend |-> Legend2]

\* the bin indices a spoke can carry: those of the largest source, and one
\* beyond them
Angles == 0..2
\* the sample arrays a spoke can carry (index 0 = nearest)
SpokeData == {<<0, 1>>, <<2, 255>>}
\* the spokes delivered to the display
Spokes == [angle : Angles, range : {DefaultRange}, data : SpokeData]

\* the ranges the host asks for with updateRange
Ranges == {DefaultRange, 2 * DefaultRange}

\* two spokes of a frame
SpokeA == [angle |-> 0, range |-> DefaultRange, data |-> <<0, 1>>]
SpokeB == [angle |-> 1, range |-> DefaultRange, data |-> <<2, 255>>]
\* the frames a stream delivers, each given by what RadarMessage.decode makes
\* of it: it throws (ok = FALSE), or returns a message with these spokes
Frames ==
    {[ok |-> FALSE, spokes |-> <<>>]}
    \cup {[ok |-> TRUE, spokes |-> s] :
             s \in {<<>>, <<SpokeA>>, <<SpokeA, SpokeB>>, <<SpokeB, SpokeA>>}}

Min(a, b) == IF a < b THEN a ELSE b
Max(a, b) == IF a > b THEN a ELSE b

Calls == 1..MaxCalls

VARIABLES
    \* ---- RadarService ----
    connecting,     \* connecting$.value
    connected,      \* connected$.value
    currentRadar,   \* this.currentRadar: the id of the source, or NoRadar
    webSocket,      \* this.webSocket: the id of the socket held, or NoSocket
    radarConfig,    \* radarConfig$.value: <<>> for null, <<config>> otherwise
    calls,          \* the connectToRadar activations in progress, by id
    nCalls,         \* number of activations started
    sock,           \* the WebSockets that are not closed yet, by the id of the creating call
    tmo,            \* the connection-timeout timer of each call: ms left, or Off
    rec,            \* the reconnect timer set by each socket's onclose
    emitted,        \* what the last task sent on the channels and settled
    last,           \* the last task run
    \* ---- history, read by the properties only ----
    phase,          \* what the host last asked for, and whether the attempt failed;
                    \* "unobserved" when no history is kept
    \* ---- RadarService, the message schema ----
    RadarMessage,   \* this.RadarMessage: "pending" (unset, protobuf.load under way),
                    \* "missing" (unset, the load failed) or "type"
    garbled,        \* history: a frame failed to decode
    \* ---- RadarDisplayComponent ----
    config,          \* this.config: <<>> while unset, <<config>> otherwise
    legend,          \* this.legend: the expanded colour table, <<>> at first
    spokeDataBuffer, \* this.spokeDataBuffer: per index <<>> (hole) or <<data>>
    pendingRender,   \* this.pendingRender
    frames,          \* render callbacks requested with requestAnimationFrame
                     \* that have not run yet
    radarCanvas,     \* what the radar canvas shows: per bin <<>> or <<wedge>>
    \* ---- history, read by the properties only ----
    processed,       \* the spokes stored since the last setRadarConfig
    batch,           \* the spokes stored since the scheduler last left Idle
    stale,           \* the bins whose entry was stored before the source last
                     \* disconnected
    \* ---- RadarLayerComponent (the map layer) ----
    shipState,       \* shipStateSubject.value: [location, heading (degrees)]
    layerConfig,     \* this.radarConfig: <<>> for null, <<config>> otherwise
    currentRange,    \* this.currentRange
    layerLegend,     \* this.legend
    radarExtent,     \* the extent the image source is anchored to
    layerCanvas,     \* the layer's radarCanvas: the <<sector, bin>> pairs such that
                     \* the sector (a quarter of a bin's arc) shows paint of the bin
    renderPending,   \* this.renderPending
    \* ---- history, read by the properties only ----
    wedgeAt,         \* the <<bin, first sector>> of the wedge painted last for
                     \* each bin that has one
    \* ---- a call of a function of the display that has no state ----
    called,          \* the function: "none" when no call is made
    given,           \* its arguments
    returned         \* <<>> while it runs, <<value>> once it has returned

svcVars == <<connecting, connected, currentRadar, webSocket, radarConfig,
             calls, nCalls, sock, tmo, rec, emitted, last, phase>>

displayVars == <<config, legend, spokeDataBuffer, pendingRender, frames,
                 radarCanvas, processed, batch, stale>>

streamVars == <<RadarMessage, garbled>>

layerVars == <<shipState, layerConfig, currentRange, layerLegend, radarExtent,
               layerCanvas, renderPending, wedgeAt>>

callVars == <<called, given, returned>>

vars == <<svcVars, streamVars, displayVars, layerVars, callVars>>

(***************************************************************************)
(* Values on the channels.                                                 *)
(***************************************************************************)
Err(msg) == [ch |-> "error$", msg |-> msg]
SpokeEvent(spoke) == [ch |-> "spokeData$", msg |-> spoke]
Cfg(cfg) == [ch |-> "radarConfig$", msg |-> cfg]

ErrWebSocket == Err("WebSocket connection error")
ErrFailed(why) == Err("Failed to connect to radar: " \o why)
\* the promise returned by connectToRadar settles
Rejects(why) == [ch |-> "rejected", msg |-> why]
Resolves == [ch |-> "resolved", msg |-> ""]

\* a config built without the default range
InitialConfig_NoRange(id) ==
    [spokes |-> RadarInfo(id).spokes,
     maxSpokeLen |-> RadarInfo(id).maxSpokeLen,
     legend |-> RadarInfo(id).legend,
     range |-> 0]

\* the RadarConfig built from the chosen source
InitialConfig(id) ==
    [spokes |-> RadarInfo(id).spokes,
     maxSpokeLen |-> RadarInfo(id).maxSpokeLen,
     legend |-> RadarInfo(id).legend,
     range |-> DefaultRange]

\* pc: "idle" (no activation), "fetch" (awaiting the discovery query),
\*     "ws" (awaiting the promise of connectWebSocket)
NoCall == [arg |-> NoId, pc |-> "idle"]
\* st: "none", "connecting", "open", "aborting" (close() called while
\*     connecting), "closing" (close() called while open); src: the source
\*     whose streamUrl the socket was opened on
NoSock == [st |-> "none", src |-> NoRadar]
\* rem: ms left, or Off.  cause and owed are history: how the socket closed,
\* and the source of a connected stream that closed uncleanly, kept while the
\* host has done nothing since
NoTimer == [rem |-> Off, cause |-> "none", owed |-> NoRadar]

\* the history is kept unless the behaviour starts unobserved
Observed == phase # "unobserved"
Note(p) == IF Observed THEN p ELSE phase

\* the task that ran last: its handler and, when observed, the call or socket
\* it belongs to and what it was given (<<>> or <<input>>)
TaskGiven(op, c, x) ==
    [op |-> op, c |-> IF Observed THEN c ELSE 0, inp |-> IF Observed THEN <<x>> ELSE <<>>]
Task(op, c) == [op |-> op, c |-> IF Observed THEN c ELSE 0, inp |-> <<>>]
\* a task of the stream or of the range control, with what it was given
TaskSeen(op, x) == [op |-> op, c |-> 0, inp |-> <<x>>]

\* the fields after construction; n connectToRadar activations have ended
SvcFields(n) ==
    /\ connecting = FALSE
    /\ connected = FALSE
    /\ currentRadar = NoRadar
    /\ webSocket = NoSocket
    /\ radarConfig = <<>>
    /\ calls = [c \in Calls |-> NoCall]
    /\ nCalls = n
    /\ sock = [c \in Calls |-> NoSock]
    /\ tmo = [c \in Calls |-> Off]
    /\ rec = [c \in Calls |-> NoTimer]
    /\ RadarMessage = "pending"
    /\ garbled = FALSE

SvcInit ==
    /\ SvcFields(0)
    /\ emitted = <<>>
    /\ last = [op |-> "init", c |-> 0, inp |-> <<>>]

Range(f) == {f[i] : i \in DOMAIN f}

RECURSIVE Join(_)
\* Object.keys(radars).join(', ')
Join(ids) ==
    IF Len(ids) = 0 THEN ""
    ELSE IF Len(ids) = 1 THEN ids[1]
    ELSE ids[1] \o ", " \o Join(Tail(ids))


\* a call of the host ends the quiet period of every armed reconnect timer
Disturbed == [c \in Calls |-> [rec[c] EXCEPT !.owed = NoRadar]]

(***************************************************************************)
(* connectToRadar, up to its first await (lines 67-82).                    *)
(***************************************************************************)
\* a guard that looks at connected only
ConnectToRadarBody_IgnoresConnecting(arg) ==
    IF connected
    THEN UNCHANGED <<connecting, calls, nCalls>>
    ELSE /\ connecting' = TRUE
         /\ nCalls' = nCalls + 1
         /\ calls' = [calls EXCEPT ![nCalls + 1] = [arg |-> arg, pc |-> "fetch"]]

ConnectToRadarBody(arg) ==
    IF connecting \/ connected
    THEN UNCHANGED <<connecting, calls, nCalls>>
    ELSE /\ connecting' = TRUE
         /\ nCalls' = nCalls + 1
         /\ calls' = [calls EXCEPT ![nCalls + 1] = [arg |-> arg, pc |-> "fetch"]]

\* the host calls connectToRadar(radarId?)
ConnectToRadar(arg) ==
    /\ (connecting \/ connected) \/ nCalls < MaxCalls
    /\ ConnectToRadarBody(arg)
    /\ emitted' = IF connecting \/ connected THEN <<Resolves>> ELSE <<>>
    /\ last' = Task("connectToRadar", IF connecting \/ connected THEN 0 ELSE nCalls + 1)
    /\ rec' = IF connecting \/ connected THEN rec ELSE Disturbed
    /\ phase' = Note("connect")
    /\ UNCHANGED <<connected, currentRadar, webSocket, radarConfig, sock, tmo>>

(***************************************************************************)
(* The catch block of connectToRadar (lines 117-121), run when the awaited *)
(* fetch or connectWebSocket promise of call c rejects.  A promise that is *)
(* already settled ignores the reject.                                     *)
(***************************************************************************)
Awaiting(c) == calls[c].pc = "ws"
\* the record of a settled call is dropped
Settled(c) == [calls EXCEPT ![c] = NoCall]
CatchEmits(c, why) == IF Awaiting(c) THEN <<ErrFailed(why), Rejects(why)>> ELSE <<>>
CatchCalls(c) == IF Awaiting(c) THEN Settled(c) ELSE calls

\* nothing of another attempt is left: no call in flight, no stream, no
\* reconnect timer
Quiet(c) ==
    \A d \in Calls \ {c} :
        calls[d].pc = "idle" /\ sock[d].st = "none" /\ rec[d].rem = Off

\* attempt c failed without a stream error, the host having asked for a
\* connection last and no other attempt being under way
Failed(c) == IF phase = "connect" /\ Quiet(c) THEN "failed" ELSE phase

(***************************************************************************)
(* The discovery query of call c answers (lines 82-115) and, when a source *)
(* is chosen, connectWebSocket runs up to the return of its promise        *)
(* (lines 124-133, 165-171).                                               *)
(***************************************************************************)
ChosenId(arg, radars) ==
    IF arg # NoId THEN arg
    ELSE IF Len(radars) = 0 THEN NoId ELSE radars[1]

DiscoveryFailure(arg, ok, radars) ==
    IF ~ok THEN "TypeError: Failed to fetch"
    ELSE IF arg = NoId /\ Len(radars) = 0 THEN "Error: No radars available"
    ELSE IF ChosenId(arg, radars) \notin Range(radars)
         THEN "Error: Radar " \o ChosenId(arg, radars) \o " not found. Available radars: " \o Join(radars)
    ELSE ""

NewSocket(id) == [st |-> "connecting", src |-> id]

FetchDone(c, answer) ==
    /\ calls[c].pc = "fetch"
    /\ last' = TaskGiven("fetchDone", c, answer)
    /\ LET id == ChosenId(calls[c].arg, answer.radars)
           why == DiscoveryFailure(calls[c].arg, answer.ok, answer.radars)
       IN IF why # ""
          THEN /\ connecting' = FALSE
               /\ emitted' = <<ErrFailed(why), Rejects(why)>>
               /\ calls' = Settled(c)
               /\ phase' = Failed(c)
               /\ UNCHANGED <<connected, currentRadar, webSocket, radarConfig, nCalls, sock, tmo, rec>>
          ELSE /\ currentRadar' = id
               /\ radarConfig' = <<InitialConfig(id)>>
               /\ emitted' = <<Cfg(InitialConfig(id))>>
               /\ webSocket' = c
               /\ sock' = [sock EXCEPT ![c] = NewSocket(id)]
               /\ tmo' = [tmo EXCEPT ![c] = ConnectTimeout]
               \* radarId = availableRadarIds[0] (line 91): the parameter holds
               \* the chosen id from here on
               /\ calls' = [calls EXCEPT ![c] = [arg |-> id, pc |-> "ws"]]
               /\ UNCHANGED <<connecting, connected, nCalls, rec, phase>>

(***************************************************************************)
(* Socket events.                                                          *)
(***************************************************************************)
\* an onopen that leaves connecting as it is
SocketOpen_KeepsConnecting(c) ==
    /\ sock[c].st = "connecting"
    /\ sock' = [sock EXCEPT ![c].st = "open"]
    /\ connected' = TRUE
    /\ calls' = IF Awaiting(c) THEN Settled(c) ELSE calls
    /\ emitted' = IF Awaiting(c) THEN <<Resolves>> ELSE <<>>
    /\ last' = Task("onopen", c)
    /\ UNCHANGED <<connecting, currentRadar, webSocket, radarConfig, nCalls, tmo, rec, phase>>

\* onopen (lines 134-139)
SocketOpen(c) ==
    /\ sock[c].st = "connecting"
    /\ sock' = [sock EXCEPT ![c].st = "open"]
    /\ connected' = TRUE
    /\ connecting' = FALSE
    /\ calls' = IF Awaiting(c) THEN Settled(c) ELSE calls
    /\ emitted' = IF Awaiting(c) THEN <<Resolves>> ELSE <<>>
    /\ last' = Task("onopen", c)
    /\ UNCHANGED <<currentRadar, webSocket, radarConfig, nCalls, tmo, rec, phase>>

\* why socket c closes: close() was called on it, or the peer closed it
\* normally, or the transport failed
CloseCause(c, clean) ==
    IF sock[c].st \in {"closing", "aborting"} THEN "disconnect"
    ELSE IF clean THEN "clean" ELSE "unclean"

\* the timer armed by onclose (lines 147-151)
ReconnectTimer(c, clean) ==
    [rem |-> ReconnectDelay,
     cause |-> IF Observed THEN CloseCause(c, clean) ELSE "none",
     owed |-> IF Observed /\ sock[c].st = "open" /\ ~clean THEN sock[c].src ELSE NoRadar]

\* onclose (lines 141-152); the handler does not look at the event
OnClose(c, clean) ==
    /\ connected' = FALSE
    /\ connecting' = FALSE
    /\ rec' = [rec EXCEPT ![c] = ReconnectTimer(c, clean)]
    /\ sock' = [sock EXCEPT ![c] = NoSock]

\* the connection fails: onerror (lines 154-159), the catch block of the
\* call awaiting it, then onclose, all in one task
SocketError(c) ==
    /\ sock[c].st \in {"connecting", "open", "aborting"}
    /\ emitted' = <<ErrWebSocket>> \o CatchEmits(c, "[object Event]")
    /\ calls' = CatchCalls(c)
    /\ OnClose(c, FALSE)
    /\ last' = Task("onerror", c)
    /\ UNCHANGED <<currentRadar, webSocket, radarConfig, nCalls, tmo, phase>>

\* the connection closes without an error event: the closing handshake
\* (started by the peer, or by close()) completes, or the peer drops an
\* open connection
SocketClosed(c, clean) ==
    /\ \/ sock[c].st = "open"
       \/ sock[c].st = "closing" /\ clean
    /\ emitted' = <<>>
    /\ OnClose(c, clean)
    /\ last' = Task("onclose", c)
    /\ UNCHANGED <<currentRadar, webSocket, radarConfig, calls, nCalls, tmo, phase>>

(***************************************************************************)
(* Timers.                                                                 *)
(***************************************************************************)
\* the connection timeout of call c (lines 166-171)
TimeoutFire(c) ==
    /\ tmo[c] = 0
    /\ tmo' = [tmo EXCEPT ![c] = Off]
    /\ last' = Task("timeout", c)
    /\ IF connecting
       THEN /\ connecting' = FALSE
            /\ emitted' = CatchEmits(c, "Connection timeout")
            /\ calls' = CatchCalls(c)
            /\ phase' = IF Awaiting(c) THEN Failed(c) ELSE phase
       ELSE /\ emitted' = <<>>
            /\ UNCHANGED <<connecting, calls, phase>>
    /\ UNCHANGED <<connected, currentRadar, webSocket, radarConfig, nCalls, sock, rec>>

\* the reconnect timer set by the onclose of socket c (lines 147-151)
ReconnectFire(c) ==
    /\ rec[c].rem = 0
    /\ (currentRadar # NoRadar /\ ~connecting /\ ~connected) => nCalls < MaxCalls
    /\ rec' = [rec EXCEPT ![c] = NoTimer]
    /\ IF currentRadar # NoRadar
       THEN ConnectToRadarBody(currentRadar)
       ELSE UNCHANGED <<connecting, calls, nCalls>>
    /\ emitted' = <<>>
    /\ last' = Task("reconnect", c)
    /\ UNCHANGED <<connected, currentRadar, webSocket, radarConfig, sock, tmo, phase>>

Armed == {tmo[c] : c \in Calls} \cup {rec[c].rem : c \in Calls}

\* time passes: no armed timer is overdue, and every armed timer gets closer
Tick ==
    /\ 0 \notin Armed
    /\ \E t \in Armed : t > 0
    /\ tmo' = [c \in Calls |-> IF tmo[c] = Off THEN Off ELSE Max(0, tmo[c] - TimeStep)]
    /\ rec' = [c \in Calls |-> IF rec[c].rem = Off THEN rec[c]
                               ELSE [rec[c] EXCEPT !.rem = Max(0, rec[c].rem - TimeStep)]]
    /\ emitted' = <<>>
    /\ last' = Task("tick", 0)
    /\ UNCHANGED <<connecting, connected, currentRadar, webSocket, radarConfig, calls, nCalls, sock, phase>>

(***************************************************************************)
(* disconnect (lines 211-219).  close() on a socket that is still opening  *)
(* makes it fail (error, then close); on an open socket it starts the      *)
(* closing handshake.  Both events arrive in a later task.                 *)
(***************************************************************************)
AfterClose(st) ==
    IF st = "connecting" THEN "aborting"
    ELSE IF st = "open" THEN "closing"
    ELSE st

\* a disconnect that keeps the current source
Disconnect_KeepsSource ==
    /\ sock' = IF webSocket # NoSocket
               THEN [sock EXCEPT ![webSocket].st = AfterClose(sock[webSocket].st)]
               ELSE sock
    /\ webSocket' = NoSocket
    /\ connected' = FALSE
    /\ connecting' = FALSE
    /\ emitted' = <<>>
    /\ rec' = Disturbed
    /\ last' = Task("disconnect", 0)
    /\ phase' = Note("disconnect")
    /\ UNCHANGED <<currentRadar, radarConfig, calls, nCalls, tmo>>

Disconnect ==
    /\ sock' = IF webSocket # NoSocket
               THEN [sock EXCEPT ![webSocket].st = AfterClose(sock[webSocket].st)]
               ELSE sock
    /\ webSocket' = NoSocket
    /\ connected' = FALSE
    /\ connecting' = FALSE
    /\ currentRadar' = NoRadar
    /\ emitted' = <<>>
    /\ rec' = Disturbed
    /\ last' = Task("disconnect", 0)
    /\ phase' = Note("disconnect")
    /\ UNCHANGED <<radarConfig, calls, nCalls, tmo>>

(***************************************************************************)
(* The message schema and the frames of a stream (lines 57-65, 161-163,   *)
(* 175-199).                                                               *)
(***************************************************************************)
\* the callback of protobuf.load
ProtobufLoaded(ok) ==
    /\ RadarMessage = "pending"
    /\ RadarMessage' = IF ok THEN "type" ELSE "missing"
    /\ emitted' = IF ok THEN <<>> ELSE <<Err("Failed to load RadarMessage.proto")>>
    /\ last' = TaskSeen("protobufLoad", ok)
    /\ UNCHANGED <<connecting, connected, currentRadar, webSocket, radarConfig,
                   calls, nCalls, sock, tmo, rec, phase, garbled>>

ErrDecode == Err("Error decoding radar data")

\* a loop that publishes the records last to first
Publish_Reversed(spokes) ==
    [i \in 1..Len(spokes) |-> SpokeEvent(spokes[Len(spokes) + 1 - i])]

\* for (const spoke of message.spokes) this.spokeData$.next(radarSpoke)
Publish(spokes) == [i \in 1..Len(spokes) |-> SpokeEvent(spokes[i])]

\* a handler that drops a frame it cannot decode without a word
HandleRadarMessage_Silent(frame) ==
    IF RadarMessage # "type" THEN <<>>
    ELSE IF ~frame.ok THEN <<>>
    ELSE Publish(frame.spokes)

\* handleRadarMessage: what it puts on the channels
HandleRadarMessage(frame) ==
    IF RadarMessage # "type" THEN <<>>
    ELSE IF ~frame.ok THEN <<ErrDecode>>
    ELSE Publish(frame.spokes)

\* onmessage of socket c; a socket delivers frames while open, and while the
\* closing handshake started by close() is under way
OnMessage(c, frame) ==
    /\ sock[c].st \in {"open", "closing"}
    /\ emitted' = HandleRadarMessage(frame)
    /\ garbled' = (garbled \/ (RadarMessage = "type" /\ ~frame.ok))
    /\ last' = TaskSeen("onmessage", frame)
    /\ UNCHANGED <<connecting, connected, currentRadar, webSocket, radarConfig,
                   calls, nCalls, sock, tmo, rec, phase, RadarMessage>>

\* a copy that loses the sample count
WithRange_LosesLength(cfg, m) == [cfg EXCEPT !.range = m, !.maxSpokeLen = 0]

\* {...currentConfig, range: range}
WithRange(cfg, m) == [cfg EXCEPT !.range = m]

\* updateRange (lines 201-209)
UpdateRange(m) ==
    /\ radarConfig' = IF radarConfig = <<>> THEN <<>> ELSE <<WithRange(radarConfig[1], m)>>
    /\ emitted' = IF radarConfig = <<>> THEN <<>> ELSE <<Cfg(WithRange(radarConfig[1], m))>>
    /\ last' = TaskSeen("updateRange", m)
    /\ UNCHANGED <<connecting, connected, currentRadar, webSocket,
                   calls, nCalls, sock, tmo, rec, phase, RadarMessage, garbled>>

(***************************************************************************)
(* RadarDisplayComponent: the legend table.                                *)
(***************************************************************************)
\* a padding with zeros only
PadRGBA_Transparent(rgba) == rgba \o [j \in 1..(4 - Len(rgba)) |-> 0]

RECURSIVE PadRGBA(_)
\* while (rgba.length < 4) rgba.push(rgba.length === 3 ? 255 : 0)
PadRGBA(rgba) ==
    IF Len(rgba) >= 4 THEN rgba
    ELSE PadRGBA(Append(rgba, IF Len(rgba) = 3 THEN 255 ELSE 0))

\* hexToRGBA: the digits after the "#" are read two at a time (the last
\* chunk may hold one digit), then the result is padded to 4 channels
HexToRGBA(digits) ==
    LET n == Len(digits)
        chunk(j) == IF 2 * j <= n THEN 16 * digits[2 * j - 1] + digits[2 * j]
                    ELSE digits[2 * j - 1]
    IN PadRGBA([j \in 1..((n + 1) \div 2) |-> chunk(j)])

\* expandLegend: entry i of the table is at position i + 1
ExpandLegend(sparse) ==
    LET table == [k \in 1..256 |->
                    IF (k - 1) \in DOMAIN sparse THEN HexToRGBA(sparse[k - 1])
                    ELSE <<0, 0, 0, 0>>]
    IN [table EXCEPT ![1][4] = 255]

(***************************************************************************)
(* RadarDisplayComponent: the sweep buffer and the render scheduler.       *)
(***************************************************************************)
\* new Array(config.spokes), and the [] the component starts with
EmptyBuffer == [a \in Angles |-> <<>>]

DisplayInit ==
    /\ config = <<>>
    /\ legend = <<>>
    /\ spokeDataBuffer = EmptyBuffer
    /\ pendingRender = FALSE
    /\ frames = 0
    /\ radarCanvas = EmptyBuffer
    /\ processed = <<>>
    /\ batch = 0
    /\ stale = {}

\* setRadarConfig (lines 146-154)
SetRadarConfig(cfg) ==
    /\ config' = <<cfg>>
    /\ legend' = ExpandLegend(cfg.legend)
    /\ spokeDataBuffer' = EmptyBuffer
    /\ processed' = <<>>
    /\ stale' = {}
    /\ UNCHANGED <<pendingRender, frames, radarCanvas, batch>>

\* a store that keeps the entry a bin already holds
StoreSpoke_KeepsFirst(buffer, spoke) ==
    IF buffer[spoke.angle] = <<>>
    THEN [buffer EXCEPT ![spoke.angle] = <<spoke.data>>]
    ELSE buffer

\* this.spokeDataBuffer[spoke.angle] = new Uint8Array(spoke.data)
StoreSpoke(buffer, spoke) == [buffer EXCEPT ![spoke.angle] = <<spoke.data>>]

\* a request made for every spoke
RequestFrame_Always(pending, n) == n + 1

\* if (!this.pendingRender) requestAnimationFrame(() => this.render())
RequestFrame(pending, n) == IF pending THEN n ELSE n + 1

\* a drawSpoke that stores whether or not a config is there
DrawSpoke_NoGuard(spoke) ==
    /\ Len(processed) < MaxSpokes
    /\ pendingRender => batch < MaxSpokes
    /\ spokeDataBuffer' = StoreSpoke(spokeDataBuffer, spoke)
    /\ frames' = RequestFrame(pendingRender, frames)
    /\ pendingRender' = TRUE
    /\ processed' = Append(processed, spoke)
    /\ batch' = IF pendingRender THEN batch + 1 ELSE 1
    /\ stale' = stale \ {spoke.angle}
    /\ UNCHANGED <<config, legend, radarCanvas>>

\* drawSpoke (lines 227-238)
DrawSpoke(spoke) ==
    /\ Len(processed) < MaxSpokes
    /\ pendingRender => batch < MaxSpokes
    /\ IF config = <<>> \/ Len(legend) = 0
       THEN UNCHANGED <<spokeDataBuffer, pendingRender, frames, processed, batch, stale>>
       ELSE /\ spokeDataBuffer' = StoreSpoke(spokeDataBuffer, spoke)
            /\ frames' = RequestFrame(pendingRender, frames)
            /\ pendingRender' = TRUE
            /\ processed' = Append(processed, spoke)
            /\ batch' = IF pendingRender THEN batch + 1 ELSE 1
            /\ stale' = stale \ {spoke.angle}
    /\ UNCHANGED <<config, legend, radarCanvas>>

\* renderSingleSpoke (lines 261-291): the cells painted for one bin, a
\* sample whose colour is fully transparent painting nothing (<<>>)
Wedge(data) ==
    [i \in 1..Len(data) |->
        LET color == legend[Min(data[i], 255) + 1]
        IN IF color[4] > 0 THEN color ELSE <<>>]

\* a pass that paints only the bin of the spoke stored last
Painted_OnlyLatest(buffer) ==
    [a \in Angles |->
        IF /\ a < config[1].spokes /\ buffer[a] # <<>>
           /\ processed # <<>> /\ processed[Len(processed)].angle = a
        THEN <<Wedge(buffer[a][1])>>
        ELSE <<>>]

\* what a render pass paints from a buffer (lines 247-256)
Painted(buffer) ==
    [a \in Angles |->
        IF a < config[1].spokes /\ buffer[a] # <<>>
        THEN <<Wedge(buffer[a][1])>>
        ELSE <<>>]

\* scaledPixelsPerDataPoint (lines 270-271), as a fraction: maxRadius *
\* RANGE_SCALE / spokeData.length, maxRadius being 300 * 0.9 on the 600 x 600
\* canvas in overlay mode (lines 69-70, 115-118)
PixelsPerDataPoint(spokeData) == [num |-> 243, den |-> Len(spokeData)]

\* a pass that paints over what the canvas shows
Render_KeepsCanvas ==
    /\ frames > 0
    /\ frames' = frames - 1
    /\ pendingRender' = FALSE
    /\ IF config = <<>> \/ Len(legend) = 0
       THEN UNCHANGED radarCanvas
       ELSE radarCanvas' = [a \in Angles |->
                               IF Painted(spokeDataBuffer)[a] # <<>>
                               THEN Painted(spokeDataBuffer)[a]
                               ELSE radarCanvas[a]]
    /\ UNCHANGED <<config, legend, spokeDataBuffer, processed, batch, stale>>

\* a pass that leaves the scheduler as it is
Render_StaysPending ==
    /\ frames > 0
    /\ frames' = frames - 1
    /\ IF config = <<>> \/ Len(legend) = 0
       THEN UNCHANGED radarCanvas
       ELSE radarCanvas' = Painted(spokeDataBuffer)
    /\ UNCHANGED <<config, legend, spokeDataBuffer, pendingRender, processed, batch, stale>>

\* render (lines 241-259), run by an animation frame requested in drawSpoke
Render ==
    /\ frames > 0
    /\ frames' = frames - 1
    /\ pendingRender' = FALSE
    /\ IF config = <<>> \/ Len(legend) = 0
       THEN UNCHANGED radarCanvas
       ELSE radarCanvas' = Painted(spokeDataBuffer)
    /\ UNCHANGED <<config, legend, spokeDataBuffer, processed, batch, stale>>

(***************************************************************************)
(* RadarLayerComponent, the map layer (app.component.ts, lines 2354-2681). *)
(* Angles on its canvas are counted in sectors, a sector being a quarter   *)
(* of the arc of one bin: a turn has 4 * spokes sectors, so that the       *)
(* offset spokes * 3 / 4 and the clearing width of 1.5 bins are whole      *)
(* numbers of sectors.                                                     *)
(***************************************************************************)
\* the ship positions and headings (degrees) the host binds
Locations == {<<0, 0>>, <<10, 20>>}
Headings == {0, 90}

\* updateExtent: the extent of the circle of this radius around the location
CircleExtent(location, range) ==
    <<location[1] - range, location[2] - range, location[1] + range, location[2] + range>>

\* expandLegend of the layer (lines 2541-2551): entry i is at position i + 1
LayerExpandLegend(sparse) ==
    [k \in 1..256 |->
        IF (k - 1) \in DOMAIN sparse THEN HexToRGBA(sparse[k - 1])
        ELSE <<0, 0, 0, 0>>]

EmptyCanvas == {}
NoWedges == {}

\* the fields after ngOnInit, before any event
LayerInit ==
    /\ shipState = [location |-> <<0, 0>>, heading |-> 0]
    /\ layerConfig = <<>>
    /\ currentRange = DefaultRange
    /\ layerLegend = <<>>
    /\ radarExtent = CircleExtent(<<0, 0>>, DefaultRange)
    /\ layerCanvas = EmptyCanvas
    /\ renderPending = FALSE
    /\ wedgeAt = NoWedges

\* a change of the ship state that leaves the extent where it is
ShipStateChange_KeepsExtent(location, heading) ==
    /\ shipState' = [location |-> location, heading |-> heading]
    /\ UNCHANGED <<layerConfig, currentRange, layerLegend, radarExtent, layerCanvas,
                   renderPending, wedgeAt>>

\* ngOnChanges with a position or a heading change (lines 2397-2404), and
\* the shipStateSubject subscriber of setupRadarLayer (lines 2474-2479)
ShipStateChange(location, heading) ==
    /\ shipState' = [location |-> location, heading |-> heading]
    /\ radarExtent' = CircleExtent(location, currentRange)
    /\ UNCHANGED <<layerConfig, currentRange, layerLegend, layerCanvas, renderPending, wedgeAt>>

\* the radarConfig$ subscriber (lines 2496-2510) with updateRadarCanvas
\* (lines 2532-2539): sizing the canvas clears it
LayerConfig(cfg) ==
    /\ layerConfig' = <<cfg>>
    /\ currentRange' = cfg.range
    /\ layerLegend' = LayerExpandLegend(cfg.legend)
    /\ IF cfg.maxSpokeLen > 0
       THEN layerCanvas' = EmptyCanvas /\ wedgeAt' = NoWedges
       ELSE UNCHANGED <<layerCanvas, wedgeAt>>
    /\ radarExtent' = CircleExtent(shipState.location, cfg.range)
    /\ UNCHANGED <<shipState, renderPending>>

\* sectors in a turn
Turn(spokes) == 4 * spokes

\* finalAngle in sectors (lines 2588-2594, 2646-2652):
\* adjustedAngle = (angle + spokes * 3 / 4) % spokes, less the heading
FinalSector(angle, heading, spokes) ==
    LET adjusted == (4 * angle + 3 * spokes) % Turn(spokes)
        headingSectors == (heading * Turn(spokes)) \div 360
    IN (adjusted + Turn(spokes) - (headingSectors % Turn(spokes))) % Turn(spokes)

\* the sectors from first to first + n - 1, around the turn
Arc(first, n, spokes) == {(first + Turn(spokes) + k) % Turn(spokes) : k \in 0..(n - 1)}

\* clearSpokeArea (lines 2639-2673): the arc of 1.5 bins centred on finalAngle
\* at the present heading
ClearedArc(angle, heading, spokes) ==
    Arc(FinalSector(angle, heading, spokes) - 3, 6, spokes)

\* renderSpokeMayaraStyle (lines 2583-2635): arc(0, 0, length, 0, arcAngle)
\* in the frame rotated by finalAngle
PaintedArc(angle, heading, spokes) == Arc(FinalSector(angle, heading, spokes), 4, spokes)

\* the spokeData$ subscriber (lines 2514-2521) and drawSpoke (lines 2564-2581)
LayerDrawSpoke(spoke) ==
    /\ IF layerConfig = <<>> \/ Len(layerLegend) = 0
       THEN UNCHANGED <<layerCanvas, renderPending, wedgeAt>>
       ELSE LET n == layerConfig[1].spokes
                h == shipState.heading
                cleared == {p \in layerCanvas : p[1] \notin ClearedArc(spoke.angle, h, n)}
            IN /\ layerCanvas' =
                     cleared \cup {<<s, spoke.angle>> : s \in PaintedArc(spoke.angle, h, n)}
               /\ wedgeAt' = {w \in wedgeAt : w[1] # spoke.angle}
                                \cup {<<spoke.angle, FinalSector(spoke.angle, h, n)>>}
               /\ renderPending' = TRUE
    /\ UNCHANGED <<shipState, layerConfig, currentRange, layerLegend, radarExtent>>

\* the animation frame requested in drawSpoke (lines 2574-2579)
LayerFrame ==
    /\ renderPending
    /\ renderPending' = FALSE
    /\ UNCHANGED <<shipState, layerConfig, currentRange, layerLegend, radarExtent,
                   layerCanvas, wedgeAt>>

(***************************************************************************)
(* Functions of RadarDisplayComponent that read no field but their         *)
(* arguments, and drawSpoke on the component as constructed, each run as   *)
(* one call: the arguments are chosen at the start, the function returns   *)
(* in the step.                                                            *)
(***************************************************************************)
NoCallMade == called = "none" /\ given = <<>> /\ returned = <<>>

Returns(name, value) ==
    /\ called = name
    /\ returned = <<>>
    /\ returned' = <<value>>
    /\ UNCHANGED <<called, given>>

\* a label: the digits before the point, <<>> or <<the digit after it>>, and
\* the unit
Label(n, tenths, unit) == [whole |-> n, tenths |-> tenths, unit |-> unit]

\* the ring values in [1000, 1852) m that lie midway between two tenths of
\* a kilometre and whose quotient by 1000, as a double, is below the
\* midpoint (1.15, 1.45, 1.65), in quarters of a metre
BelowMidpoint == {4600, 5800, 6600}

\* x.toFixed(1) for x = num / den: the nearest number of tenths; at a midpoint
\* the larger one, unless the double is below the midpoint
ToFixed1(num, den, below) ==
    IF below THEN (10 * num) \div den ELSE (20 * num + den) \div (2 * den)

\* a formatRange whose first test is rangeInMeters > 1852
FormatRange_MileAsKm(q) ==
    IF q > 7408
    THEN IF q % 7408 = 0
         THEN Label(q \div 7408, <<>>, "nm")
         ELSE Label(ToFixed1(q, 7408, FALSE) \div 10, <<ToFixed1(q, 7408, FALSE) % 10>>, "nm")
    ELSE IF q >= 4000
    THEN Label(ToFixed1(q, 4000, q \in BelowMidpoint) \div 10,
               <<ToFixed1(q, 4000, q \in BelowMidpoint) % 10>>, "km")
    ELSE Label((q + 2) \div 4, <<>>, "m")

\* formatRange (lines 368-382) of rangeInMeters = q / 4, the ring values
\* being config.range * i / 4 (line 331): 7408 quarters are 1852 m, 4000 are
\* 1000 m; Math.round(q / 4) is floor(q / 4 + 1 / 2)
FormatRange(q) ==
    IF q >= 7408
    THEN IF q % 7408 = 0
         THEN Label(q \div 7408, <<>>, "nm")
         ELSE Label(ToFixed1(q, 7408, FALSE) \div 10, <<ToFixed1(q, 7408, FALSE) % 10>>, "nm")
    ELSE IF q >= 4000
    THEN Label(ToFixed1(q, 4000, q \in BelowMidpoint) \div 10,
               <<ToFixed1(q, 4000, q \in BelowMidpoint) % 10>>, "km")
    ELSE Label((q + 2) \div 4, <<>>, "m")

\* a rotation that adds the heading
FinalAngle_AddsHeading(angle, spokes, heading) ==
    [adjusted4 |-> (4 * angle + 3 * spokes) % (4 * spokes),
     num |-> 90 * ((4 * angle + 3 * spokes) % (4 * spokes)) + spokes * heading,
     den |-> 360 * spokes]

\* renderSingleSpoke, the rotation (lines 262-268).  adjusted4 is 4 times
\* adjustedAngle = (spokeAngle + spokes * 3 / 4) % spokes, a whole number;
\* finalAngle = angleRad - headingRad is num / den of a turn, angleRad
\* being adjustedAngle / spokes of a turn and headingRad boatHeading / 360
FinalAngle(angle, spokes, heading) ==
    [adjusted4 |-> (4 * angle + 3 * spokes) % (4 * spokes),
     num |-> 90 * ((4 * angle + 3 * spokes) % (4 * spokes)) - spokes * heading,
     den |-> 360 * spokes]

\* the boat headings, in degrees
BoatHeadings == {0, 45, 90, 270}
\* the hex digits colour strings are made of here
HexDigits == {0, 8, 15}
\* the colour strings "#RRGGBB" and "#RRGGBBAA", as their digits
ColourStrings == [1..6 -> HexDigits] \cup [1..8 -> HexDigits]

\* the calls made, with their arguments
CallsMade ==
    {[fn |-> "formatRange", args |-> <<q>>] : q \in 0..MaxQuarters}
    \cup {[fn |-> "finalAngle", args |-> <<angle, spokes, heading>>] :
              angle \in 0..(MaxBins - 1), spokes \in 1..MaxBins, heading \in BoatHeadings}
    \cup {[fn |-> "hexToRGBA", args |-> <<hex>>] : hex \in ColourStrings}
    \cup {[fn |-> "drawSpoke", args |-> <<spoke>>] : spoke \in Spokes}

CallInit ==
    /\ SvcInit /\ phase = "unobserved" /\ DisplayInit /\ LayerInit
    /\ \E call \in CallsMade : called = call.fn /\ given = call.args
    /\ returned = <<>>

CallNext ==
    \/ Returns("formatRange", FormatRange(given[1]))
          /\ UNCHANGED <<svcVars, streamVars, displayVars, layerVars>>
    \/ Returns("finalAngle", FinalAngle(given[1], given[2], given[3]))
          /\ UNCHANGED <<svcVars, streamVars, displayVars, layerVars>>
    \/ Returns("hexToRGBA", HexToRGBA(given[1]))
          /\ UNCHANGED <<svcVars, streamVars, displayVars, layerVars>>
    \/ Returns("drawSpoke", "undefined") /\ DrawSpoke(given[1])
          /\ UNCHANGED <<svcVars, streamVars, layerVars>>

\* the functions of the display called on their own, and drawSpoke called
\* before any setRadarConfig
CallSpec == CallInit /\ [][CallNext]_vars

Init == SvcInit /\ phase = "init" /\ DisplayInit /\ LayerInit /\ NoCallMade

Next ==
    \/ \E arg \in RadarIds \cup {NoId} : ConnectToRadar(arg) /\ UNCHANGED <<streamVars, displayVars>> /\ UNCHANGED <<layerVars, callVars>>
    \/ \E c \in Calls, answer \in DiscoveryAnswers : FetchDone(c, answer) /\ UNCHANGED <<streamVars, displayVars>> /\ UNCHANGED <<layerVars, callVars>>
    \/ \E c \in Calls : SocketOpen(c) /\ UNCHANGED <<streamVars, displayVars>> /\ UNCHANGED <<layerVars, callVars>>
    \/ \E c \in Calls : SocketError(c) /\ UNCHANGED <<streamVars, displayVars>> /\ UNCHANGED <<layerVars, callVars>>
    \/ \E c \in Calls, clean \in BOOLEAN : SocketClosed(c, clean) /\ UNCHANGED <<streamVars, displayVars>> /\ UNCHANGED <<layerVars, callVars>>
    \/ \E c \in Calls : TimeoutFire(c) /\ UNCHANGED <<streamVars, displayVars>> /\ UNCHANGED <<layerVars, callVars>>
    \/ \E c \in Calls : ReconnectFire(c) /\ UNCHANGED <<streamVars, displayVars>> /\ UNCHANGED <<layerVars, callVars>>
    \/ Tick /\ UNCHANGED <<streamVars, displayVars>> /\ UNCHANGED <<layerVars, callVars>>
    \/ Disconnect /\ UNCHANGED <<streamVars, displayVars>> /\ UNCHANGED <<layerVars, callVars>>

\* the protocol client, the host calling it, the network and the timers
Spec == Init /\ [][Next]_vars

\* the same program with no history kept
FrameInit == SvcInit /\ phase = "unobserved" /\ DisplayInit /\ LayerInit /\ NoCallMade

FrameSpec == FrameInit /\ [][Next]_vars

\* the rest of the program, which no task of the client touches
Rest == <<streamVars, displayVars, layerVars, callVars>>

\* the event loop runs a timer callback once it is due, and time passes: the
\* setTimeout callbacks of lines 147-151 and 166-171.  Nothing makes the
\* discovery query answer (the fetch of line 82 has no timeout and no abort
\* signal), the network deliver a socket event, or the host call.
\* Each of these steps changes a timer.
TimersRun ==
    /\ WF_<<tmo, rec>>(Tick /\ UNCHANGED Rest)
    /\ \A c \in Calls : WF_<<tmo, rec>>(TimeoutFire(c) /\ UNCHANGED Rest)
    /\ \A c \in Calls : WF_<<tmo, rec>>(ReconnectFire(c) /\ UNCHANGED Rest)

\* the protocol client with timers that run
TimedSpec == FrameInit /\ [][Next]_vars /\ TimersRun

\* the client after one connect call that failed at the discovery query, no
\* history kept
StreamInit ==
    /\ SvcFields(1)
    /\ emitted = <<ErrFailed("TypeError: Failed to fetch"), Rejects("TypeError: Failed to fetch")>>
    /\ last = [op |-> "fetchDone", c |-> 0, inp |-> <<>>]
    /\ phase = "unobserved"
    /\ DisplayInit
    /\ LayerInit
    /\ NoCallMade

StreamNext ==
    \/ Next
    \/ \E ok \in BOOLEAN : ProtobufLoaded(ok) /\ UNCHANGED displayVars /\ UNCHANGED <<layerVars, callVars>>
    \/ \E c \in Calls, frame \in Frames : OnMessage(c, frame) /\ UNCHANGED displayVars /\ UNCHANGED <<layerVars, callVars>>
    \/ \E m \in Ranges : UpdateRange(m) /\ UNCHANGED displayVars /\ UNCHANGED <<layerVars, callVars>>

\* the protocol client with its stream, its message schema and its range control
StreamSpec == StreamInit /\ [][StreamNext]_vars

\* the client connected to r1 by its first connect call, the host having got
\* the resolved promise; the timeout of that attempt is never cleared (lines
\* 166-171) and is still to fire unless 10 s have passed
RecoverInit ==
    /\ connecting = FALSE
    /\ connected = TRUE
    /\ currentRadar = "r1"
    /\ webSocket = 1
    /\ radarConfig = <<InitialConfig("r1")>>
    /\ calls = [c \in Calls |-> NoCall]
    /\ nCalls = 1
    /\ sock = [c \in Calls |-> IF c = 1 THEN [st |-> "open", src |-> "r1"] ELSE NoSock]
    /\ tmo \in {[c \in Calls |-> IF c = 1 THEN t ELSE Off] : t \in {ConnectTimeout, 0, Off}}
    /\ rec = [c \in Calls |-> NoTimer]
    /\ RadarMessage \in {"type", "missing"}
    /\ garbled = FALSE
    /\ emitted = <<Resolves>>
    /\ last = [op |-> "onopen", c |-> 0, inp |-> <<>>]
    /\ phase = "unobserved"
    /\ DisplayInit
    /\ LayerInit
    /\ NoCallMade

\* the tasks that run while the host calls neither connectToRadar nor
\* disconnect: the network, the timers and the range control; the peer never
\* closes the stream with a closing handshake
RecoverNext ==
    \/ \E c \in Calls, answer \in DiscoveryAnswers : FetchDone(c, answer) /\ UNCHANGED Rest
    \/ \E c \in Calls : SocketOpen(c) /\ UNCHANGED Rest
    \/ \E c \in Calls : SocketError(c) /\ UNCHANGED Rest
    \/ \E c \in Calls : SocketClosed(c, FALSE) /\ UNCHANGED Rest
    \/ \E c \in Calls : TimeoutFire(c) /\ UNCHANGED Rest
    \/ \E c \in Calls : ReconnectFire(c) /\ UNCHANGED Rest
    \/ Tick /\ UNCHANGED Rest
    \/ \E m \in Ranges : UpdateRange(m) /\ UNCHANGED displayVars /\ UNCHANGED <<layerVars, callVars>>

\* the connected client left to itself
RecoverSpec == RecoverInit /\ [][RecoverNext]_vars

\* the client right after the host's first connectToRadar call (lines 67-82),
\* the history kept
AttemptInit ==
    /\ connecting = TRUE
    /\ connected = FALSE
    /\ currentRadar = NoRadar
    /\ webSocket = NoSocket
    /\ radarConfig = <<>>
    /\ \E arg \in RadarIds \cup {NoId} :
           calls = [c \in Calls |-> IF c = 1 THEN [arg |-> arg, pc |-> "fetch"] ELSE NoCall]
    /\ nCalls = 1
    /\ sock = [c \in Calls |-> NoSock]
    /\ tmo = [c \in Calls |-> Off]
    /\ rec = [c \in Calls |-> NoTimer]
    /\ RadarMessage = "pending"
    /\ garbled = FALSE
    /\ emitted = <<>>
    /\ last = [op |-> "connectToRadar", c |-> 1, inp |-> <<>>]
    /\ phase = "connect"
    /\ DisplayInit
    /\ LayerInit
    /\ NoCallMade

\* one connect call of the host, and nothing else called afterwards
AttemptSpec == AttemptInit /\ [][RecoverNext]_vars

\* the configs the host hands to the display
DisplayConfigs == {WithRange(InitialConfig(id), m) : id \in RadarIds, m \in Ranges}

DisplayNext ==
    \/ \E cfg \in DisplayConfigs : SetRadarConfig(cfg) /\ UNCHANGED <<svcVars, streamVars>> /\ UNCHANGED <<layerVars, callVars>>
    \/ \E spoke \in Spokes : DrawSpoke(spoke) /\ UNCHANGED <<svcVars, streamVars>> /\ UNCHANGED <<layerVars, callVars>>
    \/ Render /\ UNCHANGED <<svcVars, streamVars>> /\ UNCHANGED <<layerVars, callVars>>

\* the standalone display, the host calling it and the animation frames
DisplaySpec == FrameInit /\ [][DisplayNext]_vars

\* the browser runs a callback given to requestAnimationFrame (line 236) at
\* the next refresh of the display
FramesRun == WF_frames(Render /\ UNCHANGED <<svcVars, streamVars, layerVars, callVars>>)

\* the display handed the two spokes of a frame, in any order and number
RefreshNext ==
    \/ \E cfg \in DisplayConfigs : SetRadarConfig(cfg) /\ UNCHANGED <<svcVars, streamVars>> /\ UNCHANGED <<layerVars, callVars>>
    \/ \E spoke \in {SpokeA, SpokeB} : DrawSpoke(spoke) /\ UNCHANGED <<svcVars, streamVars>> /\ UNCHANGED <<layerVars, callVars>>
    \/ Render /\ UNCHANGED <<svcVars, streamVars>> /\ UNCHANGED <<layerVars, callVars>>

\* the standalone display on a display that refreshes
RefreshSpec == FrameInit /\ [][RefreshNext]_vars /\ FramesRun

\* the spokes the layer is handed
LayerSpokes == [angle : 0..1, range : {DefaultRange}, data : {<<0, 1>>}]

LayerNext ==
    \/ \E location \in Locations, heading \in Headings :
          ShipStateChange(location, heading) /\ UNCHANGED <<svcVars, streamVars, displayVars, callVars>>
    \/ \E cfg \in DisplayConfigs : LayerConfig(cfg) /\ UNCHANGED <<svcVars, streamVars, displayVars, callVars>>
    \/ \E spoke \in LayerSpokes : LayerDrawSpoke(spoke) /\ UNCHANGED <<svcVars, streamVars, displayVars, callVars>>
    \/ LayerFrame /\ UNCHANGED <<svcVars, streamVars, displayVars, callVars>>

\* the map layer, its bound inputs, the channels it subscribes to and the
\* animation frames
LayerSpec == FrameInit /\ [][LayerNext]_vars

(***************************************************************************)
(* The client with the display subscribed to its channels, as the host     *)
(* subscribes a consumer in connectToRadarService (app.component.ts, lines *)
(* 2494-2521): each config published is handed to setRadarConfig, each     *)
(* spoke to drawSpoke, inside the task that publishes it.  Nothing is      *)
(* subscribed to connected$ that reaches the buffer, and neither           *)
(* disconnect() nor onclose calls the display.                             *)
(***************************************************************************)
\* what the task under way sends on a channel, in order
Sent(ch) ==
    LET on == SelectSeq(emitted', LAMBDA e : e.ch = ch)
    IN [i \in DOMAIN on |-> on[i].msg]

RECURSIVE StoreAll(_, _)
\* the buffer after drawSpoke of each spoke in turn
StoreAll(buffer, spokes) ==
    IF spokes = <<>>
    THEN buffer
    ELSE StoreAll(StoreSpoke(buffer, Head(spokes)), Tail(spokes))

\* the spokeData$ subscriber run for every spoke of one frame: drawSpoke of
\* each in turn, the first of them requesting the frame
DrawSpokes(spokes) ==
    /\ Len(processed) + Len(spokes) <= MaxSpokes
    /\ pendingRender => batch + Len(spokes) <= MaxSpokes
    /\ IF config = <<>> \/ Len(legend) = 0 \/ spokes = <<>>
       THEN UNCHANGED <<spokeDataBuffer, pendingRender, frames, processed, batch, stale>>
       ELSE /\ spokeDataBuffer' = StoreAll(spokeDataBuffer, spokes)
            /\ frames' = RequestFrame(pendingRender, frames)
            /\ pendingRender' = TRUE
            /\ processed' = processed \o spokes
            /\ batch' = (IF pendingRender THEN batch ELSE 0) + Len(spokes)
            /\ stale' = stale \ {spokes[i].angle : i \in DOMAIN spokes}
    /\ UNCHANGED <<config, legend, radarCanvas>>

\* the subscribers run on what the task publishes
Forward ==
    IF Sent("radarConfig$") # <<>>
    THEN SetRadarConfig(Sent("radarConfig$")[1])
    ELSE DrawSpokes(Sent("spokeData$"))

\* the bins that hold an entry
Held(buffer) == {a \in Angles : buffer[a] # <<>>}

\* the task is disconnect(), or the close of the stream the client was
\* connected on
SourceLost == last'.op = "disconnect" \/ (connected /\ ~connected')

\* what the display does in a task of the client: its subscribers run; when
\* the source disconnects no code of the display runs, and the history dates
\* the entries the buffer holds
Subscribers ==
    IF SourceLost
    THEN /\ stale' = Held(spokeDataBuffer)
         /\ UNCHANGED <<config, legend, spokeDataBuffer, pendingRender, frames,
                        radarCanvas, processed, batch>>
    ELSE Forward

PipelineNext ==
    \/ \E arg \in RadarIds \cup {NoId} : ConnectToRadar(arg) /\ Subscribers /\ UNCHANGED streamVars /\ UNCHANGED <<layerVars, callVars>>
    \/ \E c \in Calls, answer \in DiscoveryAnswers : FetchDone(c, answer) /\ Subscribers /\ UNCHANGED streamVars /\ UNCHANGED <<layerVars, callVars>>
    \/ \E c \in Calls : SocketOpen(c) /\ Subscribers /\ UNCHANGED streamVars /\ UNCHANGED <<layerVars, callVars>>
    \/ \E c \in Calls : SocketError(c) /\ Subscribers /\ UNCHANGED streamVars /\ UNCHANGED <<layerVars, callVars>>
    \/ \E c \in Calls, clean \in BOOLEAN : SocketClosed(c, clean) /\ Subscribers /\ UNCHANGED streamVars /\ UNCHANGED <<layerVars, callVars>>
    \/ \E c \in Calls : TimeoutFire(c) /\ Subscribers /\ UNCHANGED streamVars /\ UNCHANGED <<layerVars, callVars>>
    \/ \E c \in Calls : ReconnectFire(c) /\ Subscribers /\ UNCHANGED streamVars /\ UNCHANGED <<layerVars, callVars>>
    \/ Tick /\ Subscribers /\ UNCHANGED streamVars /\ UNCHANGED <<layerVars, callVars>>
    \/ Disconnect /\ Subscribers /\ UNCHANGED streamVars /\ UNCHANGED <<layerVars, callVars>>
    \/ \E ok \in BOOLEAN : ProtobufLoaded(ok) /\ Subscribers /\ UNCHANGED <<layerVars, callVars>>
    \/ \E c \in Calls, frame \in Frames : OnMessage(c, frame) /\ Subscribers /\ UNCHANGED <<layerVars, callVars>>
    \/ \E m \in Ranges : UpdateRange(m) /\ Subscribers /\ UNCHANGED <<layerVars, callVars>>
    \/ Render /\ UNCHANGED <<svcVars, streamVars>> /\ UNCHANGED <<layerVars, callVars>>

\* the client with the display subscribed, the network, the timers and the
\* animation frames
PipelineSpec == StreamInit /\ [][PipelineNext]_vars

(***************************************************************************)
(* Properties of the protocol client.                                      *)
(***************************************************************************)
Emits(e) == e \in Range(emitted)
PublishesConfig == \E i \in DOMAIN emitted : emitted[i].ch = "radarConfig$"
Disconnected == ~connecting /\ ~connected
ArmedReconnects == {c \in Calls : rec[c].rem # Off}

\* C1: after disconnect(), and until the host calls connectToRadar again, no
\* task moves the state to connecting or connected, publishes a config or
\* opens a stream.
C1_DisconnectCancels ==
    [][(phase = "disconnect" /\ phase' = "disconnect") =>
          /\ Disconnected'
          /\ ~PublishesConfig'
          /\ \A c \in Calls : sock'[c].st = "connecting" => sock[c].st = "connecting"]_vars

\* C2: a source is current while connecting or connected, none while
\* disconnected.
C2_CurrentSourceMatchesState ==
    /\ (connecting \/ connected) => currentRadar # NoRadar
    /\ Disconnected => currentRadar = NoRadar

\* C3: when a connected stream closes without disconnect(), the state becomes
\* disconnected, and when the reconnect timer of that closure fires with the
\* host having done nothing since, a connect attempt to the same source starts
\* and the state becomes connecting.
C3_UncleanCloseReconnects ==
    [][\A c \in Calls :
          /\ (sock[c].st = "open" /\ sock'[c].st = "none") => Disconnected'
          /\ (last'.op = "reconnect" /\ last'.c = c /\ rec[c].owed # NoRadar) =>
                /\ connecting'
                /\ nCalls' = nCalls + 1
                /\ calls'[nCalls'] = [arg |-> rec[c].owed, pc |-> "fetch"]]_vars

\* C4: at most one reconnect timer is armed at any time.
C4_OneReconnectTimer == Cardinality(ArmedReconnects) <= 1

\* C5: a stream that closes cleanly (normal closure by the peer, or closure
\* caused by disconnect()) leaves the state disconnected, and the timer of
\* that closure starts no connect attempt.
C5_CleanCloseNoReconnect ==
    [][\A c \in Calls :
          /\ (sock[c].st \in {"open", "closing"} /\ sock'[c].st = "none") => Disconnected'
          /\ (last'.op = "reconnect" /\ last'.c = c /\ rec[c].cause \in {"clean", "disconnect"}) =>
                /\ nCalls' = nCalls
                /\ connecting' = connecting]_vars

\* C6: connectToRadar called while connecting or connected changes nothing:
\* no discovery query, no stream, no config, no error, and the call resolves.
C6_ConnectWhileBusyIsNoOp ==
    [][(last'.op = "connectToRadar" /\ (connecting \/ connected)) =>
          /\ UNCHANGED <<connecting, connected, currentRadar, webSocket, radarConfig,
                         calls, nCalls, sock, tmo, rec>>
          /\ emitted' = <<Resolves>>]_vars

\* C6 happens: a connect call was absorbed while a stream was open
C6_Witness == last = Task("connectToRadar", 0) /\ connected /\ emitted = <<Resolves>>

\* C7: disconnect() in any state leaves connecting and connected false and
\* the stream handle and the current source cleared; a disconnect() that
\* follows a disconnect() immediately changes nothing.
C7_DisconnectIdempotent ==
    [][last'.op = "disconnect" =>
          /\ Disconnected'
          /\ webSocket' = NoSocket
          /\ currentRadar' = NoRadar
          /\ last.op = "disconnect" => UNCHANGED vars]_vars

\* C7 happens: disconnect() has just closed an open stream
C7_Witness ==
    /\ last.op = "disconnect"
    /\ \E c \in Calls : sock[c].st = "closing"

\* C8: when the timeout of an attempt fires while its stream is still
\* opening (the host having asked for a connection last, and nothing of
\* another attempt being left), the state becomes disconnected, a timeout
\* error is emitted and the connect call rejects.
C8_TimeoutFailsAttempt ==
    [][\A c \in Calls :
          (/\ last'.op = "timeout" /\ last'.c = c
           /\ sock[c].st = "connecting"
           /\ phase = "connect" /\ Quiet(c)) =>
             /\ Disconnected'
             /\ Emits(ErrFailed("Connection timeout"))'
             /\ Emits(Rejects("Connection timeout"))']_vars

\* C9: after an attempt failed with a timeout, an unknown id or a discovery
\* failure (no other attempt being under way), and until the host calls
\* connectToRadar again, the state stays disconnected, no attempt starts and
\* no stream becomes open.
C9_NoAutoRetryAfterFailure ==
    [][(phase = "failed" /\ phase' = "failed") =>
          /\ Disconnected'
          /\ nCalls' = nCalls
          /\ \A c \in Calls : sock'[c].st = "open" => sock[c].st = "open"]_vars

(***************************************************************************)
(* Properties of the display.                                              *)
(***************************************************************************)
\* the data of the last spoke of a sequence that carries the angle, as a
\* buffer entry
RECURSIVE LastFor(_, _)
LastFor(spokes, a) ==
    IF Len(spokes) = 0 THEN <<>>
    ELSE IF spokes[Len(spokes)].angle = a THEN <<spokes[Len(spokes)].data>>
    ELSE LastFor(SubSeq(spokes, 1, Len(spokes) - 1), a)

\* C10: after any sequence of spokes processed under a config, the sweep
\* buffer holds for each angle exactly the data of the last spoke with that
\* angle, and no entry for an angle that got no spoke.
C10_BufferHoldsLatest ==
    \A a \in Angles : spokeDataBuffer[a] = LastFor(processed, a)

\* C10 happens: an angle got two spokes with different data, another angle
\* got one, and a third none
C10_Witness ==
    \E i, j, k \in DOMAIN processed :
        /\ i < j
        /\ processed[i].angle = processed[j].angle
        /\ processed[i].data # processed[j].data
        /\ processed[i].data # <<>>
        /\ processed[k].angle # processed[i].angle
        /\ \E a \in Angles : \A m \in DOMAIN processed : processed[m].angle # a

\* C11: when one or more spokes were stored before a display refresh, the
\* refresh runs one render pass, no further pass stays scheduled, and the
\* pass paints, for every bin of the sweep, the data of the last spoke stored
\* for it, whichever spoke asked for the refresh.
C11_OneRenderDrawsAll ==
    [][(batch >= 1 /\ frames' < frames) =>
          /\ frames' = 0
          /\ \A a \in Angles :
                a < config[1].spokes =>
                   radarCanvas'[a] = IF LastFor(processed, a) = <<>> THEN <<>>
                                     ELSE <<Wedge(LastFor(processed, a)[1])>>]_vars

\* C11 happens: a render pass has run after two spokes for two bins of the
\* sweep were stored before it, and both are painted
C11_Witness ==
    /\ frames = 0 /\ ~pendingRender
    /\ batch = 2 /\ Len(processed) = 2
    /\ processed[1].angle # processed[2].angle
    /\ \A i \in 1..2 : radarCanvas[processed[i].angle] = <<Wedge(processed[i].data)>>

\* never more than one render callback is outstanding, and the scheduler is
\* Pending exactly when one is
PendingIffOneFrame ==
    /\ frames \in {0, 1}
    /\ pendingRender <=> frames = 1

\* a spoke stored while Idle makes the scheduler Pending, and the end of a
\* render pass makes it Idle
SchedulerTransitions ==
    /\ (~pendingRender /\ processed' # processed /\ processed' # <<>>) => pendingRender'
    /\ frames' < frames => ~pendingRender'

C13_RangeChangeKeepsBuffer ==
    [][(/\ config # <<>> /\ config' # config
        /\ config' = <<WithRange(config[1], config'[1].range)>>) =>
          spokeDataBuffer' = spokeDataBuffer]_vars

\* the last spoke of a sequence that carries the angle: <<>> or <<spoke>>
RECURSIVE LastSpoke(_, _)
LastSpoke(spokes, a) ==
    IF Len(spokes) = 0 THEN <<>>
    ELSE IF spokes[Len(spokes)].angle = a THEN <<spokes[Len(spokes)]>>
    ELSE LastSpoke(SubSeq(spokes, 1, Len(spokes) - 1), a)

\* the fraction is base * (by / over)
ScaledBy(fraction, base, by, over) ==
    fraction.num * base.den * over = base.num * by * fraction.den

\* C26: the radial scale a render pass draws a buffered spoke with is the
\* base scale (the drawn radius divided by the number of samples) times
\* spoke.range / config.range when the range of the spoke differs from the
\* current range of the config, and the base scale itself when they are equal
\* or config.range is 0.
C26_RadialScaleFollowsRange ==
    [][(frames' < frames /\ config # <<>>) =>
          \A a \in Angles :
             (a < config[1].spokes /\ LastSpoke(processed, a) # <<>>) =>
                LET spoke == LastSpoke(processed, a)[1]
                    base == [num |-> 243, den |-> Len(spoke.data)]
                    used == PixelsPerDataPoint(spokeDataBuffer[a][1])
                IN IF config[1].range = 0 \/ spoke.range = config[1].range
                   THEN ScaledBy(used, base, 1, 1)
                   ELSE ScaledBy(used, base, spoke.range, config[1].range)]_vars

\* C27: after each render pass of the standalone display the canvas shows,
\* for every angle in [0, spokes) that has a buffer entry, the wedge of that
\* entry's data, a sample whose colour is fully transparent painting nothing;
\* every other bin is blank, whatever an earlier pass painted.
C27_RenderShowsBufferOnly ==
    [][frames' < frames =>
          \A a \in Angles :
             radarCanvas'[a] =
                IF a < config[1].spokes /\ spokeDataBuffer[a] # <<>>
                THEN LET data == spokeDataBuffer[a][1]
                     IN <<[i \in 1..Len(data) |->
                             IF legend[Min(data[i], 255) + 1][4] > 0
                             THEN legend[Min(data[i], 255) + 1]
                             ELSE <<>>]>>
                ELSE <<>>]_vars

\* C27 happens: a pass has painted the one bin of the sweep with a
\* transparent sample skipped, and the bin beyond the sweep is blank
C27_Witness ==
    /\ frames = 0 /\ config # <<>>
    /\ radarCanvas[1] = <<>>
    /\ spokeDataBuffer[0] # <<>>
    /\ radarCanvas[0] # <<>>
    /\ \E i \in DOMAIN radarCanvas[0][1] : radarCanvas[0][1][i] = <<>>
    /\ \E i \in DOMAIN radarCanvas[0][1] : radarCanvas[0][1][i] # <<>>
    /\ config[1].spokes = 1

(***************************************************************************)
(* Properties of the discovery step.                                       *)
(***************************************************************************)
\* the discovery query of call c has just ended with this answer
Answered(c, answer) == last'.op = "fetchDone" /\ last'.c = c /\ last'.inp = <<answer>>

\* the attempt is aborted: an error is surfaced, no config is published, no
\* stream is opened and the state is disconnected
Aborted ==
    /\ \E i \in DOMAIN emitted' : emitted'[i].ch = "error$"
    /\ ~PublishesConfig'
    /\ \A d \in Calls : sock'[d].st = "connecting" => sock[d].st = "connecting"
    /\ Disconnected'

\* C14: when the source disconnects (disconnect() is called, or the stream
\* the client was connected on closes), the sweep buffer is discarded: a
\* render pass that runs afterwards paints no bin from an entry stored
\* before the disconnect.
C14_DisconnectDiscardsBuffer ==
    [][frames' < frames => \A a \in stale : radarCanvas'[a] = <<>>]_vars

\* C19: a connect call with an explicit id that the discovery result does not
\* hold fails with an error that lists the available ids; no stream is
\* opened, no config is published and the state is disconnected afterwards.
C19_UnknownIdFails ==
    [][\A c \in Calls, answer \in DiscoveryAnswers :
          (/\ Answered(c, answer) /\ answer.ok
           /\ calls[c].arg # NoId /\ calls[c].arg \notin Range(answer.radars)) =>
             /\ Aborted
             /\ ErrFailed("Error: Radar " \o calls[c].arg
                           \o " not found. Available radars: "
                           \o Join(answer.radars)) \in Range(emitted')
             /\ Rejects("Error: Radar " \o calls[c].arg
                         \o " not found. Available radars: "
                         \o Join(answer.radars)) \in Range(emitted')]_vars

\* C20: when the discovery query fails (network failure, malformed body or a
\* status outside 200..299), the attempt is aborted: an error is surfaced, no
\* config is published, no stream is opened and the state is disconnected.
C20_DiscoveryFailureAborts ==
    [][\A c \in Calls, answer \in DiscoveryAnswers :
          (Answered(c, answer) /\ (~answer.ok \/ answer.status \notin 200..299)) =>
             Aborted]_vars

\* C21: when the discovery lists no source, a connect call made without an id
\* fails: the call rejects, an error is emitted, and the state is
\* disconnected afterwards (not connecting, not connected).
C21_NoSourceFails ==
    [][\A c \in Calls, answer \in DiscoveryAnswers :
          (/\ Answered(c, answer) /\ answer.ok
           /\ calls[c].arg = NoId /\ answer.radars = <<>>) =>
             /\ Rejects("Error: No radars available") \in Range(emitted')
             /\ ErrFailed("Error: No radars available") \in Range(emitted')
             /\ Disconnected']_vars

\* the config of a source as the discovery lists it, at the default range
Listed(id) ==
    [spokes |-> RadarInfo(id).spokes,
     maxSpokeLen |-> RadarInfo(id).maxSpokeLen,
     legend |-> RadarInfo(id).legend,
     range |-> 1852]

\* C22: the task that creates the stream of a call has chosen a source (the
\* id asked for, when one was given) and publishes, on radarConfig$ and as
\* its only event, the config with that source's spokes, maxSpokeLen and
\* legend and range 1852; the stream is still connecting when the task ends,
\* so the config is out before the stream opens.
C22_InitialConfigFirst ==
    [][\A c \in Calls :
          (sock[c].st = "none" /\ sock'[c].st # "none") =>
             /\ sock'[c].st = "connecting"
             /\ calls[c].arg # NoId => sock'[c].src = calls[c].arg
             /\ currentRadar' = sock'[c].src
             /\ emitted' = <<[ch |-> "radarConfig$", msg |-> Listed(sock'[c].src)]>>
             /\ radarConfig' = <<Listed(sock'[c].src)>>]_vars

\* C22 happens: a stream opened on a source whose config is the published one
C22_Witness ==
    \E c \in Calls : sock[c].st = "open" /\ radarConfig = <<Listed(sock[c].src)>>
(***************************************************************************)
(* Properties of the stream and of the range control.                      *)
(***************************************************************************)
\* socket handler onmessage has just run on this frame
Received(frame) == last' = TaskSeen("onmessage", frame)

\* the events of the step are the spokes of the frame, one event per record,
\* in the order of the records
PublishedInOrder(frame) ==
    /\ Len(emitted') = Len(frame.spokes)
    /\ \A i \in DOMAIN emitted' :
          emitted'[i].ch = "spokeData$" /\ emitted'[i].msg = frame.spokes[i]

\* C15: every frame that decodes is published as one spoke event per record,
\* in the order of the records, within the task that received the frame; no
\* other task publishes a spoke.
C15_SpokesInOrder ==
    [][/\ \A frame \in Frames :
             (Received(frame) /\ RadarMessage = "type" /\ frame.ok) => PublishedInOrder(frame)
       /\ (\E i \in DOMAIN emitted' : emitted'[i].ch = "spokeData$") => last'.op = "onmessage"]_vars

\* C15 happens: a frame with two records was published, second angle first
C15_Witness ==
    /\ last = TaskSeen("onmessage", [ok |-> TRUE, spokes |-> <<SpokeB, SpokeA>>])
    /\ emitted = <<SpokeEvent(SpokeB), SpokeEvent(SpokeA)>>

\* C16: a frame that fails to decode publishes no spoke, puts an error on the
\* error channel and leaves connecting, connected, the current source and
\* the stream as they are; a frame that decodes after such a failure is
\* published.
C16_DecodeFailureNotFatal ==
    [][\A frame \in Frames :
          (Received(frame) /\ RadarMessage = "type") =>
             /\ ~frame.ok =>
                   /\ emitted' = <<ErrDecode>>
                   /\ UNCHANGED <<connecting, connected, currentRadar, webSocket, sock, RadarMessage>>
             /\ (garbled /\ frame.ok) => PublishedInOrder(frame)]_vars

\* C16 happens: after a frame failed to decode, a frame with a spoke was
\* published on a connected stream
C16_Witness ==
    /\ garbled /\ connected
    /\ last = TaskSeen("onmessage", [ok |-> TRUE, spokes |-> <<SpokeA>>])
    /\ emitted = <<SpokeEvent(SpokeA)>>

\* C17: in every state, a frame received on a stream either has its spokes
\* published or puts an error on the error channel.
C17_NoSilentDrop ==
    [][\A frame \in Frames :
          Received(frame) =>
             \/ \E i \in DOMAIN emitted' : emitted'[i].ch = "error$"
             \/ frame.ok /\ PublishedInOrder(frame)]_vars

\* C18: updateRange(m) publishes the current config with range = m and spokes,
\* maxSpokeLen and legend as they were, and publishes nothing when no config
\* was published yet; it changes neither connecting, connected, the current
\* source nor the stream.
C18_UpdateRangeOnlyRange ==
    [][\A m \in Ranges :
          last' = TaskSeen("updateRange", m) =>
             /\ UNCHANGED <<connecting, connected, currentRadar, webSocket, sock, calls, tmo, rec>>
             /\ IF radarConfig = <<>>
                THEN radarConfig' = <<>> /\ emitted' = <<>>
                ELSE /\ radarConfig'[1].range = m
                     /\ radarConfig'[1].spokes = radarConfig[1].spokes
                     /\ radarConfig'[1].maxSpokeLen = radarConfig[1].maxSpokeLen
                     /\ radarConfig'[1].legend = radarConfig[1].legend
                     /\ emitted' = <<Cfg(radarConfig'[1])>>]_vars

\* C18 happens: the range of a connected source was doubled
C18_Witness ==
    /\ last = TaskSeen("updateRange", 2 * DefaultRange)
    /\ connected /\ radarConfig # <<>>
    /\ emitted = <<Cfg(WithRange(InitialConfig("r1"), 2 * DefaultRange))>>
(***************************************************************************)
(* Properties of the colour tables.                                        *)
(***************************************************************************)
\* the table has 256 entries; an index the legend does not hold is
\* (0,0,0,0), an index it holds has the colour of its string, and entry 0
\* is opaque in both cases
WellExpanded(table, sparse) ==
    /\ Len(table) = 256
    /\ \A i \in 1..255 :
          table[i + 1] = IF i \in DOMAIN sparse THEN HexToRGBA(sparse[i]) ELSE <<0, 0, 0, 0>>
    /\ SubSeq(table[1], 1, 3) = IF 0 \in DOMAIN sparse
                                THEN SubSeq(HexToRGBA(sparse[0]), 1, 3)
                                ELSE <<0, 0, 0>>
    /\ table[1][4] = 255

\* C23: every colour table built from a sparse legend, in the standalone
\* display and in the map layer, has exactly 256 entries; an index absent
\* from the legend maps to (0,0,0,0), an index present keeps its colour, and
\* the alpha of index 0 is 255 whether or not the legend holds index 0.
C23_ColorTables ==
    /\ config # <<>> => WellExpanded(legend, config[1].legend)
    /\ layerConfig # <<>> => WellExpanded(layerLegend, layerConfig[1].legend)

(***************************************************************************)
(* Properties of the map layer.                                            *)
(***************************************************************************)
\* the range of the config received last, 1852 m before the first one
LatestRange == IF layerConfig = <<>> THEN 1852 ELSE layerConfig[1].range

\* the extent is the one of the latest ship location and the latest range
ExtentFollows ==
    LET x == shipState.location[1]
        y == shipState.location[2]
    IN radarExtent = <<x - LatestRange, y - LatestRange, x + LatestRange, y + LatestRange>>

\* C25: after any sequence of ship-state updates, config publications and
\* spoke events, the extent anchoring the raster is the one of the latest
\* ship location and the latest config range; an event that changes neither
\* the location nor the range leaves the extent unchanged.
C25_ExtentFollowsShipAndRange ==
    /\ []ExtentFollows
    /\ [][(shipState'.location = shipState.location /\ LatestRange' = LatestRange) =>
             radarExtent' = radarExtent]_vars

\* C25 happens: the ship has moved and the range has changed, a spoke is on
\* the canvas, and the extent is the one of both
C25_Witness ==
    /\ shipState.location = <<10, 20>>
    /\ LatestRange = 2 * 1852
    /\ radarExtent = <<10 - 3704, 20 - 3704, 10 + 3704, 20 + 3704>>
    /\ wedgeAt # NoWedges

\* C28: in the map layer, the region of the previous wedge of a bin, at the
\* heading it was painted under, is cleared before the bin is painted again:
\* after any sequence of spokes and heading changes the paint of a bin lies
\* within the one wedge painted for it last.
C28_OneWedgePerAngle ==
    \A p \in layerCanvas :
        \E w \in wedgeAt :
            /\ w[1] = p[2]
            /\ p[1] \in Arc(w[2], 4, layerConfig[1].spokes)

(***************************************************************************)
(* Properties of the functions of the display.                             *)
(***************************************************************************)
\* formatRange has returned a label
Labelled == called = "formatRange" /\ returned # <<>>

\* the number on the label, in tenths
Tenths(label) ==
    10 * label.whole + (IF label.tenths = <<>> THEN 0 ELSE label.tenths[1])

\* the number on the label, in tenths of a unit of den quarters of a metre,
\* is the value rounded: it is at most half a step (half a tenth, or half a
\* unit when the label has no decimal) away from it
Rounded(label, q, den) ==
    LET step == IF label.tenths = <<>> THEN 10 ELSE 1
        off == den * Tenths(label) - 10 * q
    IN 2 * off <= step * den /\ 2 * off >= -(step * den)

C29_RotationByHeading ==
    (called = "finalAngle" /\ returned # <<>> /\ given[1] < given[2]) =>
        LET angle == given[1]
            spokes == given[2]
            heading == given[3]
            r == returned[1]
        IN /\ r.adjusted4 >= 0 /\ r.adjusted4 < 4 * spokes
           /\ (r.adjusted4 + spokes) % (4 * spokes) = 4 * angle
           /\ r.den > 0
           /\ r.num * 4 * spokes * 360 = (r.adjusted4 * 360 - heading * 4 * spokes) * r.den
           /\ heading = 0 => r.num * 4 * spokes = r.adjusted4 * r.den
           /\ (heading = 90 /\ r.adjusted4 = 0) => 4 * r.num = -r.den

\* C29 happens: at heading 90 degrees the bin with theta = 0 of a sweep of 8
\* bins has been rotated
C29_Witness ==
    called = "finalAngle" /\ returned # <<>> /\ given = <<2, 8, 90>> /\ returned[1].adjusted4 = 0

\* C30: the colour of a legend entry has exactly 4 channels, R, G and B read
\* from the pairs of digits of its string and A from the fourth pair, A being
\* 255 when the string has only three pairs.
C30_FourChannels ==
    (called = "hexToRGBA" /\ returned # <<>>) =>
        LET hex == given[1]
            rgba == returned[1]
        IN /\ Len(rgba) = 4
           /\ \A j \in 1..3 : rgba[j] = 16 * hex[2 * j - 1] + hex[2 * j]
           /\ rgba[4] = IF Len(hex) = 6 THEN 255 ELSE 16 * hex[7] + hex[8]

\* C30 happens: a string of three pairs has been given alpha 255
C30_Witness ==
    /\ called = "hexToRGBA" /\ Len(given[1]) = 6
    /\ returned = <<<<15 * 17, 8, 8 * 16, 255>>>>

(***************************************************************************)
(* Properties of the client as a whole: streams, flags, progress.          *)
(***************************************************************************)
\* the sockets that are opening or open
Streams == {c \in Calls : sock[c].st \in {"connecting", "open"}}

\* C31: at most one stream (a WebSocket that is opening or open) exists at
\* any time, and it is the one the client holds the handle of.
C31_OneStream ==
    /\ Cardinality(Streams) <= 1
    /\ \A c \in Streams : webSocket = c

\* call c is under way: it awaits its discovery query or its stream
InProgress(c) == calls[c].pc # "idle" \/ sock[c].st = "connecting"

\* the task is a callback of the stream or of the timeout of attempt c
CallbackOf(c) ==
    /\ last'.op \in {"onopen", "onclose", "onerror", "timeout"}
    /\ last'.c = c

\* C32: connected implies that the client holds a stream handle and that
\* this stream is open; connecting implies that an attempt is in progress;
\* and a callback (open, close, error, timeout) of an earlier attempt leaves
\* both flags alone while a later attempt is in progress.
C32_FlagsMatchHeldStream ==
    /\ [](connected => (webSocket # NoSocket /\ sock[webSocket].st = "open"))
    /\ [](connecting => \E c \in Calls : InProgress(c))
    /\ [][\A c, d \in Calls :
             (c < d /\ InProgress(d) /\ CallbackOf(c)) =>
                 UNCHANGED <<connecting, connected>>]_vars

\* C33: connecting and connected are never both true between two tasks;
\* connecting becomes true only from a state where both are false, and
\* connected becomes true only in a task that leaves connecting false.
C33_NeverBothFlags ==
    /\ [](~(connecting /\ connected))
    /\ [][/\ (connecting' /\ ~connecting) => Disconnected
          /\ (connected' /\ ~connected) => ~connecting']_vars

\* C33 happens: the stream of an attempt that was connecting has just opened
C33_Witness == last.op = "onopen" /\ connected /\ ~connecting /\ nCalls > 1

\* C34: every connect attempt leaves the connecting state in the end, also
\* when the discovery query never answers: connecting does not stay true
\* forever.
C34_ConnectingEnds == connecting ~> ~connecting

\* C35: after an unclean closure of the stream, the host calling nothing,
\* the client becomes connected again once the source can be reached,
\* however the reconnect attempts in between failed: so whenever the client
\* is disconnected, a reconnect timer is armed or an attempt is in progress.
C35_ReconnectsUntilConnected ==
    Disconnected => (ArmedReconnects # {} \/ \E c \in Calls : InProgress(c))

\* the reconnect timer of socket c fires, the socket having failed before it
\* opened and the connect call awaiting it having rejected for that reason
RetryOfRefused(c) ==
    /\ last'.op = "reconnect" /\ last'.c = c
    /\ rec[c].cause = "unclean" /\ rec[c].owed = NoRadar
    /\ phase = "connect"

\* C36: when the connect call of the host rejects because the stream failed
\* to open, the client stays disconnected and starts no attempt until the
\* host calls connectToRadar again: the timer of that closure starts none.
C36_RefusedStaysDisconnected ==
    [][\A c \in Calls : RetryOfRefused(c) => (Disconnected' /\ nCalls' = nCalls)]_vars

\* C37: an automatic reconnect to the same source does not change the
\* published range: with no connect call of the host, no task but
\* updateRange changes the range of the published config.
C37_ReconnectKeepsRange ==
    [][(radarConfig # <<>> /\ last'.op # "updateRange") =>
          radarConfig'[1].range = radarConfig[1].range]_vars

\* C38: the render scheduler does not stay Pending forever: while
\* pendingRender is true the render pass of the next refresh runs, and the
\* pass leaves pendingRender false, whether or not a config and a colour
\* table are there.
C38_PendingEnds ==
    /\ pendingRender ~> ~pendingRender
    /\ [][frames' < frames => ~pendingRender']_vars

\* C38 happens: a render pass has returned the scheduler to Idle, and a
\* spoke stored afterwards has made it Pending again
C38_Witness ==
    /\ pendingRender /\ frames = 1
    /\ Len(processed) > batch
    /\ radarCanvas # EmptyBuffer

\* C39: a spoke handed to drawSpoke before any config has been set is
\* dropped: the sweep buffer, the colour table and the scheduler are as they
\* were at construction, and no render callback is requested.
C39_SpokeBeforeConfigDropped ==
    (called = "drawSpoke" /\ returned # <<>>) =>
        /\ config = <<>>
        /\ spokeDataBuffer = EmptyBuffer
        /\ legend = <<>>
        /\ ~pendingRender
        /\ frames = 0

\* C39 happens: drawSpoke has returned for a spoke with samples that would
\* paint, no config being set
C39_Witness ==
    /\ called = "drawSpoke" /\ returned # <<>>
    /\ given = <<SpokeB>>
    /\ config = <<>> /\ spokeDataBuffer = EmptyBuffer

====
